---- MODULE Spec2Model ----
(***************************************************************************)
(* Model of the code cell of CI-Proportions-Wald-vs-Wilsons.ipynb: the     *)
(* Wald and Wilson (score) confidence intervals for a proportion; and of   *)
(* the code cell of Experimental-Design-Tutorial-Mortgages.ipynb: the      *)
(* two-proportion z-test.                                                  *)
(*                                                                         *)
(* The cell computes in binary floating point (Python float / numpy        *)
(* float64).  The model keeps that: a value is sign-and-mantissa times a   *)
(* power of two, and every operation rounds its exact result to nearest,   *)
(* ties to even, as IEEE 754 does.  The mantissa has MantBits bits instead *)
(* of 53 (TLC's integers have 32 bits); the exponent is unbounded, since   *)
(* the cell's values stay far from overflow and underflow.                 *)
(***************************************************************************)
EXTENDS Integers, Sequences, FiniteSets, TLC

VARIABLES
    n,              \* kernel global: sample size (line 79)
    x,              \* kernel global: number of successes (line 80)
    p_hat,          \* kernel global: sample proportion (line 81)
    conf_level,     \* kernel global: confidence level, in percent (line 84)
    z,              \* kernel global: critical value (line 85)
    wald_se, wald_lower, wald_upper,                    \* lines 88-90
    denominator, centre_adj, adj_std_dev,               \* lines 93-95
    wilson_lower, wilson_upper,                         \* lines 96-97
    source,         \* the three literals in the cell's text (lines 79-84)
    stdout,         \* what the last run of the cell printed (lines 100-102)
    error,          \* the exception that ended the last run, or "none"
    \* Experimental-Design-Tutorial-Mortgages.ipynb, its code cell:
    n_A, x_A,       \* kernel globals: size and conversions of group A
    n_B, x_B,       \* kernel globals: size and conversions of group B
    counts, nobs,   \* kernel globals: the two numpy arrays (lines 138-139)
    z_stat,         \* kernel global: the test statistic (line 143)
    p_value,        \* kernel global: its p-value (line 143)
    ztest_stdout    \* what the run of the cell printed (lines 145-152)

ciVars == <<n, x, p_hat, conf_level, z, wald_se, wald_lower, wald_upper,
            denominator, centre_adj, adj_std_dev, wilson_lower, wilson_upper,
            source, stdout, error>>
ztestVars == <<n_A, x_A, n_B, x_B, counts, nobs, z_stat, p_value,
               ztest_stdout>>
vars == <<ciVars, ztestVars>>

(***************************************************************************)
(* Bounds of the model.                                                    *)
(***************************************************************************)
MantBits == 13      \* bits of a float's mantissa
MaxTrials == 20     \* Spec tries the sample sizes -1 .. MaxTrials, and DocN
RerunTrials == 2    \* SpecRerun tries the sample sizes 0 .. RerunTrials
MaxGroup == 5       \* SpecZTest tries the group sizes 0 .. MaxGroup, and DocNA

(***************************************************************************)
(* Floating point.  A value is [k, m, e]: finite (value m * 2^e, with m    *)
(* signed, and m = 0 or 2^(MantBits-1) <= |m| < 2^MantBits), an infinity   *)
(* (m its sign), or NaN.  The kernel's other objects have the same shape:  *)
(* a Python int (m its value), a raised exception (k its class), and       *)
(* Unbound for a name the kernel has not bound.                            *)
(***************************************************************************)
Fin(m, e) == [k |-> "fin", m |-> m, e |-> e]
Zero == Fin(0, 0)
NaN == [k |-> "nan", m |-> 0, e |-> 0]
Inf(s) == [k |-> "inf", m |-> s, e |-> 0]
Unbound == [k |-> "unbound", m |-> 0, e |-> 0]
PyInt(i) == [k |-> "int", m |-> i, e |-> 0]
Raised(class) == [k |-> class, m |-> 0, e |-> 0]
Exceptions == {"ZeroDivisionError", "NameError"}

AbsInt(a) == IF a < 0 THEN -a ELSE a
Sgn(a) == IF a < 0 THEN -1 ELSE IF a > 0 THEN 1 ELSE 0

RECURSIVE BitLen(_)
BitLen(a) == IF a = 0 THEN 0 ELSE 1 + BitLen(a \div 2)

\* The float nearest to the exact value mm * 2^ee, ties to even.
Round(mm, ee) ==
    LET a == AbsInt(mm)
        len == BitLen(a)
    IN  IF a = 0 THEN Zero
        ELSE IF len <= MantBits
        THEN Fin(Sgn(mm) * a * 2^(MantBits - len), ee - (MantBits - len))
        ELSE LET sh == len - MantBits
                 q == a \div 2^sh
                 r == a % 2^sh
                 half == 2^(sh - 1)
                 q1 == IF r > half \/ (r = half /\ q % 2 = 1) THEN q + 1 ELSE q
             IN  IF q1 = 2^MantBits
                 THEN Fin(Sgn(mm) * 2^(MantBits - 1), ee + sh + 1)
                 ELSE Fin(Sgn(mm) * q1, ee + sh)

FromInt(i) == Round(i, 0)
One == FromInt(1)

FNeg(a) == [a EXCEPT !.m = -a.m]

FAdd(a, b) ==
    IF a.k = "nan" \/ b.k = "nan" THEN NaN
    ELSE IF a.k = "inf" /\ b.k = "inf" THEN (IF a.m = b.m THEN a ELSE NaN)
    ELSE IF a.k = "inf" THEN a
    ELSE IF b.k = "inf" THEN b
    ELSE IF a.m = 0 THEN b
    ELSE IF b.m = 0 THEN a
    ELSE LET hi == IF a.e >= b.e THEN a ELSE b
             lo == IF a.e >= b.e THEN b ELSE a
             d == hi.e - lo.e
         IN  IF d > MantBits + 1 THEN hi
             ELSE Round(hi.m * 2^d + lo.m, lo.e)

FSub(a, b) == FAdd(a, FNeg(b))

FMul(a, b) ==
    IF a.k = "nan" \/ b.k = "nan" THEN NaN
    ELSE IF a.k = "inf" \/ b.k = "inf"
    THEN (IF a.m = 0 \/ b.m = 0 THEN NaN ELSE Inf(Sgn(a.m) * Sgn(b.m)))
    ELSE Round(a.m * b.m, a.e + b.e)

\* The quotient of the integers a > 0 and b > 0 times 2^ee, correctly rounded:
\* a is scaled until the integer quotient has two bits more than a mantissa,
\* and a non-zero remainder is kept as a sticky bit.
RECURSIVE ShiftFor(_, _)
ShiftFor(a, target) == IF a >= target THEN 0 ELSE 1 + ShiftFor(2 * a, target)

Quotient(s, a, b, ee) ==
    LET sh == ShiftFor(a, b * 2^(MantBits + 1))
        num == a * 2^sh
        q == num \div b
        sticky == IF num % b = 0 THEN 0 ELSE 1
    IN  Round(s * (2 * q + sticky), ee - sh - 1)

FDiv(a, b) ==
    IF a.k = "nan" \/ b.k = "nan" THEN NaN
    ELSE IF a.k = "inf" THEN (IF b.k = "inf" THEN NaN
                              ELSE Inf(a.m * (IF b.m < 0 THEN -1 ELSE 1)))
    ELSE IF b.k = "inf" THEN Zero
    ELSE IF b.m = 0 THEN (IF a.m = 0 THEN NaN ELSE Inf(Sgn(a.m)))
    ELSE IF a.m = 0 THEN Zero
    ELSE Quotient(Sgn(a.m) * Sgn(b.m), AbsInt(a.m), AbsInt(b.m), a.e - b.e)

\* The largest s with s * s <= a, found bit by bit from bit number `bit` down.
RECURSIVE ISqrtFrom(_, _, _)
ISqrtFrom(a, s, bit) ==
    IF bit < 0 THEN s
    ELSE LET t == s + 2^bit
         IN  ISqrtFrom(a, IF t * t <= a THEN t ELSE s, bit - 1)

FSqrt(a) ==
    IF a.k = "nan" THEN NaN
    ELSE IF a.k = "inf" THEN (IF a.m > 0 THEN a ELSE NaN)
    ELSE IF a.m = 0 THEN Zero
    ELSE IF a.m < 0 THEN NaN
    ELSE LET sh == IF (a.e - (MantBits + 1)) % 2 = 0
                   THEN MantBits + 1 ELSE MantBits + 2
             num == a.m * 2^sh
             s == ISqrtFrom(num, 0, MantBits)
             sticky == IF s * s = num THEN 0 ELSE 1
         IN  Round(2 * s + sticky, ((a.e - sh) \div 2) - 1)

\* Python's comparisons: every comparison with NaN is false.
FLt(a, b) == LET d == FSub(b, a) IN d.k # "nan" /\ d.m > 0
FLeq(a, b) == a.k # "nan" /\ b.k # "nan" /\ (a = b \/ FLt(a, b))
IsFinite(a) == a.k = "fin"

(***************************************************************************)
(* The cell's inputs.  The cell sets them by literals (n = 30, x = 1,      *)
(* conf_level = 0.95); a run of the cell with other literals is a call of  *)
(* the two estimators with other arguments.  A confidence level is held in *)
(* percent.                                                                *)
(***************************************************************************)
DocN == 30
DocX == 1
DocConf == 95
ValidConf == {80, 90, DocConf, 99}
InvalidConf == {0, 100, 150, -95}
ConfLevels == ValidConf \cup InvalidConf
Trials == (-1 .. MaxTrials) \cup {DocN}
Successes(nn) == -1 .. ((IF nn < 0 THEN 0 ELSE nn) + 1)
ConvergenceTrials == {100, 10000}
RerunConf == {80, DocConf, -95}

Lits(nn, xx, cc) == [n |-> nn, x |-> xx, conf_level |-> cc]
ValidSample(nn, xx) == nn > 0 /\ 0 <= xx /\ xx <= nn
ValidInput(nn, xx, cc) == ValidSample(nn, xx) /\ 0 < cc /\ cc < 100

(***************************************************************************)
(* The right-hand sides of the cell's assignments, one operator each.      *)
(***************************************************************************)
\* The literal assignments n = 30, x = 1 and conf_level = 0.95.
LitN(env, lits) == PyInt(lits.n)
\* (mutant) x += 1 in place of x = 1: the binding an earlier run left is read.
LitXAccumulate(env, lits) == PyInt(env["x"].m + lits.x)
LitX(env, lits) == PyInt(lits.x)
LitConf(env, lits) == PyInt(lits.conf_level)

\* (mutant) x / n on numpy integers: division by zero gives inf or nan.
PHatNumpy(xx, nn) ==
    IF nn = 0 THEN (IF xx = 0 THEN NaN ELSE Inf(Sgn(xx)))
    ELSE IF xx = 0 THEN Zero
    ELSE Quotient(Sgn(xx) * Sgn(nn), AbsInt(xx), AbsInt(nn), 0)
\* x / n on Python ints: the correctly rounded quotient, or the exception.
PHat(xx, nn) ==
    IF nn = 0 THEN Raised("ZeroDivisionError")
    ELSE IF xx = 0 THEN Zero
    ELSE Quotient(Sgn(xx) * Sgn(nn), AbsInt(xx), AbsInt(nn), 0)

\* scipy's norm.ppf at the upper-tail probabilities the model uses, to four
\* decimals; at probability 1/2 it is 0 and at probability 1 it is +inf.
NormPpfUpper(cc) ==
    IF cc = 80 THEN Quotient(1, 12816, 10000, 0)
    ELSE IF cc = 90 THEN Quotient(1, 16449, 10000, 0)
    ELSE IF cc = 95 THEN Quotient(1, 19600, 10000, 0)
    ELSE IF cc = 99 THEN Quotient(1, 25758, 10000, 0)
    ELSE IF cc = 0 THEN Zero
    ELSE IF cc = 100 THEN Inf(1)
    ELSE NaN

\* (mutant) the lower tail, norm.ppf((1 - conf_level) / 2): the sign of z.
ZCritLowerTail(cc) ==
    IF cc > 100 \/ cc < -100 THEN NaN
    ELSE IF cc >= 0 THEN FNeg(NormPpfUpper(cc))
    ELSE NormPpfUpper(-cc)
\* norm.ppf(1 - (1 - conf_level) / 2): NaN for a probability outside [0, 1],
\* and the normal quantile is odd about probability 1/2.
ZCrit(cc) ==
    IF cc > 100 \/ cc < -100 THEN NaN
    ELSE IF cc >= 0 THEN NormPpfUpper(cc)
    ELSE FNeg(NormPpfUpper(-cc))

\* (mutant) p_hat * (p_hat - 1) / n: the sign of the variance.
WaldSeSignSlip(p, nn) == FSqrt(FDiv(FMul(p, FSub(p, One)), FromInt(nn)))
\* (mutant) p_hat / n: the factor (1 - p_hat) is lost.
WaldSeNoComplement(p, nn) == FSqrt(FDiv(p, FromInt(nn)))
WaldSe(p, nn) == FSqrt(FDiv(FMul(p, FSub(One, p)), FromInt(nn)))
\* (mutant) the lower bound truncated at 0.
WaldLowerClamped(p, zz, se) ==
    LET v == FSub(p, FMul(zz, se))
    IN  IF v.k = "fin" /\ v.m < 0 THEN Zero ELSE v
WaldLower(p, zz, se) == FSub(p, FMul(zz, se))
\* (mutant) p_hat + wald_se: the critical value left out of the upper bound.
WaldUpperNoZ(p, zz, se) == FAdd(p, se)
WaldUpper(p, zz, se) == FAdd(p, FMul(zz, se))

Denominator(zz, nn) == FAdd(One, FDiv(FMul(zz, zz), FromInt(nn)))
\* (mutant) z**2 / 2 * n: the parentheses around 2 * n are lost.
CentreAdjPrecedence(p, zz, nn) ==
    FAdd(p, FMul(FDiv(FMul(zz, zz), FromInt(2)), FromInt(nn)))
CentreAdj(p, zz, nn) == FAdd(p, FDiv(FMul(zz, zz), FromInt(2 * nn)))
\* (mutant) the division of the radicand by n is lost.
AdjStdDevNoDiv(p, zz, nn) ==
    FSqrt(FAdd(FMul(p, FSub(One, p)), FDiv(FMul(zz, zz), FromInt(4 * nn))))
AdjStdDev(p, zz, nn) ==
    FSqrt(FDiv(FAdd(FMul(p, FSub(One, p)),
                    FDiv(FMul(zz, zz), FromInt(4 * nn))),
               FromInt(nn)))
WilsonLower(c, zz, adj, den) == FDiv(FSub(c, FMul(zz, adj)), den)
WilsonUpper(c, zz, adj, den) == FDiv(FAdd(c, FMul(zz, adj)), den)

\* The format {v:.4f}: v in units of 1e-4, rounded to nearest, ties to even.
Fmt4(v) ==
    IF v.k # "fin" THEN [k |-> v.k, v |-> v.m]
    ELSE IF v.e >= 0 THEN [k |-> "num", v |-> v.m * 2^v.e * 10000]
    ELSE IF -v.e > 30 THEN [k |-> "num", v |-> 0]
    ELSE LET num == AbsInt(v.m) * 10000
             den == 2^(-v.e)
             q == num \div den
             r == num % den
             q1 == IF 2 * r > den \/ (2 * r = den /\ q % 2 = 1)
                   THEN q + 1 ELSE q
         IN  [k |-> "num", v |-> Sgn(v.m) * q1]

\* The three print statements: one line each.
PrintLines(env) ==
    << <<Fmt4(env["p_hat"])>>,
       <<Fmt4(env["wald_lower"]), Fmt4(env["wald_upper"])>>,
       <<Fmt4(env["wilson_lower"]), Fmt4(env["wilson_upper"])>> >>

(***************************************************************************)
(* The cell: its statements in order.  A statement reads names from the    *)
(* kernel's namespace env and binds one name; lits are the three literals  *)
(* in the cell's text.                                                     *)
(***************************************************************************)
Names == {"n", "x", "p_hat", "conf_level", "z", "wald_se", "wald_lower",
          "wald_upper", "denominator", "centre_adj", "adj_std_dev",
          "wilson_lower", "wilson_upper"}

CellStatements ==
    <<"n", "x", "p_hat", "conf_level", "z", "wald_se", "wald_lower",
      "wald_upper", "denominator", "centre_adj", "adj_std_dev",
      "wilson_lower", "wilson_upper", "print">>

Reads(id) ==
    CASE id = "p_hat" -> {"x", "n"}
      [] id = "z" -> {"conf_level"}
      [] id = "wald_se" -> {"p_hat", "n"}
      [] id \in {"wald_lower", "wald_upper"} -> {"p_hat", "z", "wald_se"}
      [] id = "denominator" -> {"z", "n"}
      [] id = "centre_adj" -> {"p_hat", "z", "n"}
      [] id = "adj_std_dev" -> {"p_hat", "z", "n"}
      [] id \in {"wilson_lower", "wilson_upper"} ->
            {"centre_adj", "z", "adj_std_dev", "denominator"}
      [] id = "print" -> {"p_hat", "wald_lower", "wald_upper",
                          "wilson_lower", "wilson_upper"}
      [] OTHER -> {}

Value(id, env, lits) ==
    CASE id = "n" -> LitN(env, lits)
      [] id = "x" -> LitX(env, lits)
      [] id = "p_hat" -> PHat(env["x"].m, env["n"].m)
      [] id = "conf_level" -> LitConf(env, lits)
      [] id = "z" -> ZCrit(env["conf_level"].m)
      [] id = "wald_se" -> WaldSe(env["p_hat"], env["n"].m)
      [] id = "wald_lower" -> WaldLower(env["p_hat"], env["z"], env["wald_se"])
      [] id = "wald_upper" -> WaldUpper(env["p_hat"], env["z"], env["wald_se"])
      [] id = "denominator" -> Denominator(env["z"], env["n"].m)
      [] id = "centre_adj" -> CentreAdj(env["p_hat"], env["z"], env["n"].m)
      [] id = "adj_std_dev" -> AdjStdDev(env["p_hat"], env["z"], env["n"].m)
      [] id = "wilson_lower" ->
            WilsonLower(env["centre_adj"], env["z"], env["adj_std_dev"],
                        env["denominator"])
      [] id = "wilson_upper" ->
            WilsonUpper(env["centre_adj"], env["z"], env["adj_std_dev"],
                        env["denominator"])

\* Runs the statements stmts from the kernel state st; an exception ends it.
RECURSIVE Exec(_, _, _)
Exec(stmts, st, lits) ==
    IF stmts = <<>> THEN st
    ELSE LET id == Head(stmts)
         IN  IF \E r \in Reads(id) : st.env[r] = Unbound
             THEN [st EXCEPT !.error = "NameError"]
             ELSE IF id = "print"
             THEN Exec(Tail(stmts),
                       [st EXCEPT !.stdout = PrintLines(st.env)], lits)
             ELSE LET v == Value(id, st.env, lits)
                  IN  IF v.k \in Exceptions
                      THEN [st EXCEPT !.error = v.k]
                      ELSE Exec(Tail(stmts), [st EXCEPT !.env[id] = v], lits)

\* One run of the cell: the output area is cleared, then the statements run.
ExecCell(env, lits) ==
    Exec(CellStatements, [env |-> env, stdout |-> <<>>, error |-> "none"],
         lits)

(***************************************************************************)
(* The notebook.  Init is the notebook as shipped, in a fresh kernel;       *)
(* RunCell edits the cell's literals and runs it; Reopen opens the         *)
(* shipped notebook again, in a fresh kernel.                              *)
(***************************************************************************)
FreshEnv == [nm \in Names |-> Unbound]
DocSource == Lits(DocN, DocX, DocConf)

Globals ==
    ("n" :> n) @@ ("x" :> x) @@ ("p_hat" :> p_hat)
    @@ ("conf_level" :> conf_level) @@ ("z" :> z)
    @@ ("wald_se" :> wald_se) @@ ("wald_lower" :> wald_lower)
    @@ ("wald_upper" :> wald_upper) @@ ("denominator" :> denominator)
    @@ ("centre_adj" :> centre_adj) @@ ("adj_std_dev" :> adj_std_dev)
    @@ ("wilson_lower" :> wilson_lower) @@ ("wilson_upper" :> wilson_upper)

Bind(env) ==
    /\ n' = env["n"] /\ x' = env["x"] /\ p_hat' = env["p_hat"]
    /\ conf_level' = env["conf_level"] /\ z' = env["z"]
    /\ wald_se' = env["wald_se"] /\ wald_lower' = env["wald_lower"]
    /\ wald_upper' = env["wald_upper"] /\ denominator' = env["denominator"]
    /\ centre_adj' = env["centre_adj"] /\ adj_std_dev' = env["adj_std_dev"]
    /\ wilson_lower' = env["wilson_lower"]
    /\ wilson_upper' = env["wilson_upper"]

Init ==
    /\ n = Unbound /\ x = Unbound /\ p_hat = Unbound
    /\ conf_level = Unbound /\ z = Unbound
    /\ wald_se = Unbound /\ wald_lower = Unbound /\ wald_upper = Unbound
    /\ denominator = Unbound /\ centre_adj = Unbound /\ adj_std_dev = Unbound
    /\ wilson_lower = Unbound /\ wilson_upper = Unbound
    /\ source = DocSource
    /\ stdout = <<>>
    /\ error = "none"
    /\ n_A = Unbound /\ x_A = Unbound /\ n_B = Unbound /\ x_B = Unbound
    /\ counts = Unbound /\ nobs = Unbound
    /\ z_stat = Unbound /\ p_value = Unbound
    /\ ztest_stdout = <<>>

\* No run of the cell has ended in this kernel session.
Fresh == n = Unbound

RunCell(nn, xx, cc) ==
    LET lits == Lits(nn, xx, cc)
        r == ExecCell(Globals, lits)
    IN  /\ source' = lits
        /\ Bind(r.env)
        /\ stdout' = r.stdout
        /\ error' = r.error
        /\ UNCHANGED ztestVars

Reopen ==
    /\ ~Fresh
    /\ source' = DocSource
    /\ Bind(FreshEnv)
    /\ stdout' = <<>>
    /\ error' = "none"
    /\ UNCHANGED ztestVars

\* "Run all" in a fresh kernel: the cell runs once in each kernel session.
RunAll ==
    /\ Fresh
    /\ \E nn \in Trials : \E xx \in Successes(nn) : \E cc \in ConfLevels :
          RunCell(nn, xx, cc)

Next == RunAll \/ Reopen

Spec == Init /\ [][Next]_vars

\* The same at the two sample sizes of the convergence property, at the
\* documented confidence level and every number of successes.
RunAllLarge ==
    /\ Fresh
    /\ \E nn \in ConvergenceTrials : \E xx \in 0 .. nn :
          RunCell(nn, xx, DocConf)

NextLarge == RunAllLarge \/ Reopen

SpecLarge == Init /\ [][NextLarge]_vars

\* The cell edited and run again and again in one kernel session.
Rerun ==
    \E nn \in 0 .. RerunTrials : \E xx \in Successes(nn) :
       \E cc \in RerunConf : RunCell(nn, xx, cc)

NextRerun == Rerun \/ Reopen

SpecRerun == Init /\ [][NextRerun]_vars

(***************************************************************************)
(* The code cell of Experimental-Design-Tutorial-Mortgages.ipynb: the      *)
(* two-proportion z-test of "group A converts more often than group B".    *)
(* The cell sets the four counts by literals; a run with other literals is *)
(* the test of other data.  The notebook has a kernel of its own.          *)
(***************************************************************************)
DocNA == 200
DocXA == 60
DocNB == 200
DocXB == 40
Groups == 0 .. MaxGroup
Conversions(nn) == 0 .. (nn + 1)

\* norm.sf, the upper tail of the standard normal distribution.  Its digits
\* are not computed: the p-value is printed, and nothing reads it.
NormSf(zz) == IF zz.k = "nan" THEN NaN ELSE [k |-> "norm.sf", of |-> zz]

\* numpy's float division: no exception, x / 0 is an infinity or NaN.
\* count * 1. / nobs of one group.
Prop(count, nob) == FDiv(FromInt(count.m), FromInt(nob.m))

\* (mutant) the standard error from each group's own proportion, unpooled.
ProportionsZtestUnpooled(count, nob) ==
    LET p1 == Prop(count[1], nob[1])
        p2 == Prop(count[2], nob[2])
        diff == FSub(p1, p2)
        var_ == FAdd(FDiv(FMul(p1, FSub(One, p1)), FromInt(nob[1].m)),
                     FDiv(FMul(p2, FSub(One, p2)), FromInt(nob[2].m)))
        zstat == FDiv(diff, FSqrt(var_))
    IN  <<zstat, NormSf(zstat)>>

\* statsmodels' proportions_ztest(count, nobs, alternative='larger') of two
\* samples: value is 0 and the variance is that of the pooled proportion.
ProportionsZtest(count, nob) ==
    LET prop == [i \in 1 .. 2 |-> Prop(count[i], nob[i])]
        diff == FSub(prop[1], prop[2])
        p_pooled == FDiv(FromInt(count[1].m + count[2].m),
                         FromInt(nob[1].m + nob[2].m))
        nobs_fact == FAdd(FDiv(One, FromInt(nob[1].m)),
                          FDiv(One, FromInt(nob[2].m)))
        var_ == FMul(FMul(p_pooled, FSub(One, p_pooled)), nobs_fact)
        std_diff == FSqrt(var_)
        zstat == FDiv(diff, std_diff)
    IN  <<zstat, NormSf(zstat)>>

\* The format {v:.2f}: v in units of 1e-2, rounded to nearest, ties to even.
Fmt2(v) ==
    IF v.k # "fin" THEN [k |-> v.k, v |-> v.m]
    ELSE IF v.e >= 0 THEN [k |-> "num", v |-> v.m * 2^v.e * 100]
    ELSE IF -v.e > 30 THEN [k |-> "num", v |-> 0]
    ELSE LET num == AbsInt(v.m) * 100
             den == 2^(-v.e)
             q == num \div den
             r == num % den
             q1 == IF 2 * r > den \/ (2 * r = den /\ q % 2 = 1)
                   THEN q + 1 ELSE q
         IN  [k |-> "num", v |-> Sgn(v.m) * q1]

\* The literal 1.645 and the if statement that prints the conclusion.
CriticalValue == Quotient(1, 1645, 1000, 0)
RejectMessage == "Reject the null hypothesis"
FailToRejectMessage == "Fail to reject the null hypothesis"
Interpretation(zz) ==
    IF FLt(CriticalValue, zz) THEN RejectMessage ELSE FailToRejectMessage

\* The three lines the cell prints.
ZTestLines(zz, pp) ==
    << <<"Z-statistic", Fmt2(zz)>>, <<"P-value", pp>>, <<Interpretation(zz)>> >>

ZFresh == n_A = Unbound

RunZTest(na, xa, nb, xb) ==
    LET cnt == <<PyInt(xa), PyInt(xb)>>
        obs == <<PyInt(na), PyInt(nb)>>
        res == ProportionsZtest(cnt, obs)
    IN  /\ n_A' = PyInt(na) /\ x_A' = PyInt(xa)
        /\ n_B' = PyInt(nb) /\ x_B' = PyInt(xb)
        /\ counts' = cnt
        /\ nobs' = obs
        /\ z_stat' = res[1]
        /\ p_value' = res[2]
        /\ ztest_stdout' = ZTestLines(res[1], res[2])
        /\ UNCHANGED ciVars

\* "Run all" in a fresh kernel, with small groups.
RunAllZTest ==
    /\ ZFresh
    /\ \E na \in Groups : \E xa \in Conversions(na) :
          \E nb \in Groups : \E xb \in Conversions(nb) :
             RunZTest(na, xa, nb, xb)

\* The same with the shipped data but for the conversions of group A.
RunDocZTest ==
    /\ ZFresh
    /\ \E xa \in 0 .. DocNA : RunZTest(DocNA, xa, DocNB, DocXB)

ReopenZTest ==
    /\ ~ZFresh
    /\ n_A' = Unbound /\ x_A' = Unbound /\ n_B' = Unbound /\ x_B' = Unbound
    /\ counts' = Unbound /\ nobs' = Unbound
    /\ z_stat' = Unbound /\ p_value' = Unbound
    /\ ztest_stdout' = <<>>
    /\ UNCHANGED ciVars

NextZTest == RunAllZTest \/ RunDocZTest \/ ReopenZTest

SpecZTest == Init /\ [][NextZTest]_vars

(***************************************************************************)
(* The properties.  Ran: a run of the cell has ended in this session;      *)
(* Completed: it ended without an exception; ValidRun: and its arguments   *)
(* were a valid sample and a confidence level in (0, 1).                   *)
(***************************************************************************)
Ran == ~Fresh
Completed == Ran /\ error = "none"
ValidRun == Completed /\ ValidInput(n.m, x.m, conf_level.m)
Failed == Ran /\ error # "none"

FAbs(a) == [a EXCEPT !.m = AbsInt(a.m)]
WilsonWithinUnit == FLeq(Zero, wilson_lower) /\ FLeq(wilson_upper, One)
WaldWidth(env) == FSub(env["wald_upper"], env["wald_lower"])
WilsonWidth(env) == FSub(env["wilson_upper"], env["wilson_lower"])
LowerDiff(env) == FAbs(FSub(env["wald_lower"], env["wilson_lower"]))
UpperDiff(env) == FAbs(FSub(env["wald_upper"], env["wilson_upper"]))
FMax(a, b) == IF FLt(a, b) THEN b ELSE a

\* C1 (as claimed): for every valid sample and confidence level in (0, 1),
\* the Wilson interval has lower >= 0 and upper <= 1, the boundary samples
\* successes = 0 and successes = trials included.
C1_WilsonWithinUnit == ValidRun => WilsonWithinUnit

C4_BoundsOrdered ==
    ValidRun => FLeq(wald_lower, wald_upper) /\ FLeq(wilson_lower, wilson_upper)

\* The degenerate sample successes = trials: the Wald interval is a point.
C4_Witness ==
    /\ ValidRun /\ x.m = n.m
    /\ wald_lower = wald_upper /\ FLt(wilson_lower, wilson_upper)

\* C5: for trials = 30, successes = 1 and confidence 0.95 (z = 1.96 to two
\* decimals) the printed Wald interval is within 1e-3 of (-0.0309, 0.0976)
\* and the printed Wilson interval within 1e-3 of (0.0059, 0.1667).
DocOutput == <<-309, 976, 59, 1667>>
Near(printed, doc) == printed.k = "num" /\ AbsInt(printed.v - doc) <= 10
C5_DocumentedExample ==
    (Completed /\ n.m = DocN /\ x.m = DocX /\ conf_level.m = DocConf)
        => /\ AbsInt(Fmt4(z).v - 19600) < 50
           /\ Near(stdout[2][1], DocOutput[1])
           /\ Near(stdout[2][2], DocOutput[2])
           /\ Near(stdout[3][1], DocOutput[3])
           /\ Near(stdout[3][2], DocOutput[4])

C5_Witness ==
    /\ Completed /\ n.m = DocN /\ x.m = DocX /\ conf_level.m = DocConf
    /\ Len(stdout) = 3

\* C6 (as claimed): for successes = 0, any trials > 0 and any confidence
\* level in (0, 1), the Wald interval is lower = upper = 0 and the Wilson
\* lower bound is >= 0.
C6_ZeroSuccesses ==
    (ValidRun /\ x.m = 0)
        => /\ wald_lower = Zero /\ wald_upper = Zero
           /\ FLeq(Zero, wilson_lower)

\* C7: for fixed trials and confidence level, the width of each interval
\* increases with successes up to the proportion nearest 0.5 and decreases
\* after it: it grows from successes to successes + 1 while successes + 1 is
\* at most trials / 2, and shrinks once successes is at least trials / 2;
\* no width exceeds the larger of the widths at the one or two successes
\* nearest trials / 2.
PeakRun(up) ==
    ExecCell(FreshEnv, Lits(n.m, (n.m + up) \div 2, conf_level.m)).env
C7_WidthsRiseThenFall ==
    (ValidRun /\ x.m < n.m)
        => LET nxt == ExecCell(FreshEnv, Lits(n.m, x.m + 1, conf_level.m)).env
           IN  /\ 2 * (x.m + 1) <= n.m
                    => /\ FLt(WaldWidth(Globals), WaldWidth(nxt))
                       /\ FLt(WilsonWidth(Globals), WilsonWidth(nxt))
               /\ 2 * x.m >= n.m
                    => /\ FLt(WaldWidth(nxt), WaldWidth(Globals))
                       /\ FLt(WilsonWidth(nxt), WilsonWidth(Globals))
               /\ FLeq(WaldWidth(Globals),
                       FMax(WaldWidth(PeakRun(0)), WaldWidth(PeakRun(1))))
               /\ FLeq(WilsonWidth(Globals),
                       FMax(WilsonWidth(PeakRun(0)), WilsonWidth(PeakRun(1))))

\* The sample at the peak, proportion exactly 0.5, of the documented size.
C7_Witness ==
    /\ ValidRun /\ n.m = DocN /\ 2 * x.m = DocN
    /\ FLt(Zero, WaldWidth(Globals))

\* C8: the Wald bounds are the unclamped p_hat -/+ z * wald_se; for the
\* documented sample the Wald lower bound is negative, and whenever a Wald
\* bound of a valid sample leaves [0, 1] the Wilson interval of the same
\* sample stays within [0, 1].
C8_WaldUnclamped ==
    /\ Completed =>
          /\ wald_lower = FSub(p_hat, FMul(z, wald_se))
          /\ wald_upper = FAdd(p_hat, FMul(z, wald_se))
    /\ (Completed /\ n.m = DocN /\ x.m = DocX /\ conf_level.m = DocConf)
          => FLt(wald_lower, Zero) /\ WilsonWithinUnit
    /\ (ValidRun /\ (FLt(wald_lower, Zero) \/ FLt(One, wald_upper)))
          => WilsonWithinUnit

\* A valid sample whose Wald upper bound exceeds 1.
C8_Witness == ValidRun /\ FLt(One, wald_upper) /\ WilsonWithinUnit

\* C9 (as claimed): at trials = 10,000 and confidence 0.95 the two lower
\* bounds differ by at most 1e-3, and so do the two upper bounds, and each
\* of the two differences is smaller than at trials = 100 for the same
\* proportion.
Tolerance == Quotient(1, 1, 1000, 0)
SmallRun == ExecCell(FreshEnv, Lits(100, x.m \div 100, conf_level.m)).env
C9_EachBoundCloser ==
    (Completed /\ n.m = 10000)
        => /\ FLeq(LowerDiff(Globals), Tolerance)
           /\ FLeq(UpperDiff(Globals), Tolerance)
           /\ x.m % 100 = 0
                => /\ FLt(LowerDiff(Globals), LowerDiff(SmallRun))
                   /\ FLt(UpperDiff(Globals), UpperDiff(SmallRun))

\* C9 (amended): at trials = 10,000 and confidence 0.95 the two lower bounds
\* differ by at most 1e-3, and so do the two upper bounds, and the larger of
\* the two differences is smaller than at trials = 100 for the same
\* proportion.
C9_IntervalsCloser ==
    (Completed /\ n.m = 10000)
        => /\ FLeq(LowerDiff(Globals), Tolerance)
           /\ FLeq(UpperDiff(Globals), Tolerance)
           /\ x.m % 100 = 0
                => FLt(FMax(LowerDiff(Globals), UpperDiff(Globals)),
                       FMax(LowerDiff(SmallRun), UpperDiff(SmallRun)))

\* The proportion 0.01 at trials = 10,000: the lower bounds differ, and each
\* Wilson bound is within 1e-3 of the Wald bound.
C9_Witness ==
    /\ Completed /\ n.m = 10000 /\ x.m = 100
    /\ FLt(Zero, LowerDiff(Globals))
    /\ FLeq(FMax(LowerDiff(Globals), UpperDiff(Globals)), Tolerance)

\* C10: whatever runs came before in the kernel session, a run's failure and
\* printed intervals, and after a completed run every name the cell binds,
\* are those of the same literals run in a fresh kernel.
C10_Deterministic ==
    Ran => LET r == ExecCell(FreshEnv, source)
           IN  /\ error = r.error
               /\ stdout = r.stdout
               /\ Completed => Globals = r.env

\* A run that followed a run with another confidence level: it failed, as
\* in a fresh kernel, and the kernel still holds what the earlier run bound.
C10_Witness ==
    /\ Failed /\ source = Lits(0, 1, DocConf)
    /\ conf_level = PyInt(80) /\ IsFinite(wilson_upper)

\* The claim's statistic, z = (x_A/n_A - x_B/n_B) / sqrt(p * (1 - p) *
\* (1/n_A + 1/n_B)) with p = (x_A + x_B) / (n_A + n_B), in floating point.
PooledStatistic(xa, na, xb, nb) ==
    LET p == FDiv(FromInt(xa + xb), FromInt(na + nb))
        se == FSqrt(FMul(FMul(p, FSub(One, p)),
                         FAdd(FDiv(One, FromInt(na)), FDiv(One, FromInt(nb)))))
    IN  FDiv(FSub(FDiv(FromInt(xa), FromInt(na)),
                  FDiv(FromInt(xb), FromInt(nb))), se)

\* The same comparison z > 1.645 in exact arithmetic, for counts small enough
\* for the integers: with d = x_A * n_B - x_B * n_A, s = x_A + x_B and
\* t = n_A + n_B it is d > 0 and 200^2 * d^2 * t > 329^2 * n_A * n_B * s *
\* (t - s).
ExactlyAboveCritical(xa, na, xb, nb) ==
    LET d == xa * nb - xb * na
        s == xa + xb
        t == na + nb
    IN  d > 0 /\ 40000 * d * d * t > 108241 * na * nb * s * (t - s)

ZRan == ~ZFresh
ZValid == /\ ZRan /\ ValidSample(n_A.m, x_A.m) /\ ValidSample(n_B.m, x_B.m)
ZDoc == /\ ZRan /\ n_A.m = DocNA /\ x_A.m = DocXA
        /\ n_B.m = DocNB /\ x_B.m = DocXB
Printed(message) == ztest_stdout[3] = <<message>>

\* C11: the cell prints the "Reject the null hypothesis" message exactly when
\* the pooled statistic z is strictly greater than 1.645, and the "Fail to
\* reject" message otherwise; for the documented data x_A = 60, n_A = 200,
\* x_B = 40, n_B = 200 the statistic prints as 2.31 and the reject branch is
\* taken.
C11_RejectAboveCritical ==
    ZRan =>
        /\ Len(ztest_stdout) = 3
        /\ Printed(RejectMessage) \/ Printed(FailToRejectMessage)
        /\ Printed(RejectMessage)
              <=> FLt(CriticalValue,
                      PooledStatistic(x_A.m, n_A.m, x_B.m, n_B.m))
        /\ (ZValid /\ n_A.m <= MaxGroup + 1 /\ n_B.m <= MaxGroup + 1) =>
              (Printed(RejectMessage)
                  <=> ExactlyAboveCritical(x_A.m, n_A.m, x_B.m, n_B.m))
        /\ ZDoc => /\ ztest_stdout[1] = <<"Z-statistic", [k |-> "num", v |-> 231]>>
                   /\ Printed(RejectMessage)

\* The run of the shipped cell: 2.31 is printed and the null hypothesis is
\* rejected.
C11_Witness ==
    /\ ZDoc /\ Printed(RejectMessage) /\ Fmt2(z_stat).v = 231
    /\ FLt(CriticalValue, z_stat)

\* The midpoint of the Wilson interval, centre_adj / denominator, and the
\* rounding error allowed to a sum of the two Wald bounds: four units in the
\* last place of the larger bound.
Half == Quotient(1, 1, 2, 0)
WilsonMidpoint == FDiv(centre_adj, denominator)
WaldSum == FAdd(wald_lower, wald_upper)
TwicePHat == FMul(FromInt(2), p_hat)
RoundingSlack ==
    FMul(Round(1, 2 - MantBits), FMax(FAbs(wald_lower), FAbs(wald_upper)))
StrictlyBetween(v, a, b) ==
    (FLt(a, v) /\ FLt(v, b)) \/ (FLt(b, v) /\ FLt(v, a))
WilsonAsymmetry ==
    /\ p_hat # Half =>
          /\ StrictlyBetween(WilsonMidpoint, p_hat, Half)
          /\ FSub(wilson_upper, p_hat) # FSub(p_hat, wilson_lower)
    /\ (WilsonMidpoint = p_hat) <=> (p_hat = Half)

====
